---- MODULE Spec2Model ----
(***************************************************************************)
(* A model of gracex's PNG renderer (src/src/renderer.rs) over the drawing *)
(* primitives of src/src/primitives.rs.                                    *)
(*                                                                         *)
(* PngRenderer::render allocates a pixmap, fills it white, walks the       *)
(* command list in order (one loop iteration is one step of the model) and *)
(* hands the finished pixmap to save_png.  The rasteriser (tiny-skia) is   *)
(* a library: fill_path and stroke_path are modelled by what they do on a  *)
(* small canvas: anti-aliased coverage is counted on Sub x Sub samples per *)
(* pixel, and a paint is composited source-over on premultiplied RGBA8.    *)
(* Lengths are integers in units of 1/Sub of a pixel.                      *)
(***************************************************************************)
EXTENDS Integers, Sequences, FiniteSets, TLC

\* Bounds of the model: the canvas in pixels, the samples along a pixel's
\* side, the longest command list of a call, and the longest list where
\* calls are compared with recorded earlier calls; and the most rows of a
\* column of a data source.
CanvasW == 3
CanvasH == 2
Sub == 2
MaxCmds == 2
MaxCmdsTwice == 1
MaxRows == 2

VARIABLES
    renderer,   \* the PngRenderer: [width, height, file_path]
    pc,         \* "idle" | "loop" | "returned": where render is
    commands,   \* the slice render was called with
    idx,        \* 1-based index of the command the loop processes next
    pixels,     \* the local pixmap of render, NoPixmap when there is none
    before,     \* the pixmap as it was when the last command was begun
    result,     \* render's return value, Pending until it returns
    sinkCalls,  \* save_png invocations of the current call
    persisted,  \* the image save_png wrote in the current call, NoPixmap if none
    printed,    \* the diagnostics println! emitted in the current call
    prev,       \* an observer's record of an earlier call (SpecTwice only)
    source,     \* a data source: a DataFrame or a Series (SpecData only)
    query,      \* the column name get_numeric_column was last called with
    answer      \* what that call returned, NoAnswer before the first call

renderVars == <<renderer, pc, commands, idx, pixels, before, result, sinkCalls,
                persisted, printed, prev>>
dataVars == <<source, query, answer>>
vars == <<renderVars, dataVars>>

----------------------------------------------------------------------------
\* Option<T>

None == [some |-> FALSE]
Some(x) == [some |-> TRUE, val |-> x]

----------------------------------------------------------------------------
\* f64 and f32 values.  "fin" carries an integer count of 1/Sub pixels;
\* "big" is a finite f64 beyond f32::MAX; "nonfin" is NaN or an infinity.

Fin(n) == [k |-> "fin", v |-> n]
BigF64 == [k |-> "big", v |-> 0]
NonFinite == [k |-> "nonfin", v |-> 0]

IsFinite(x) == x.k = "fin"

\* `x as f32`: a value out of f32's range becomes an infinity.
AsF32(x) == IF x.k = "big" THEN NonFinite ELSE x

AddF(a, b) == IF IsFinite(a) /\ IsFinite(b) THEN Fin(a.v + b.v) ELSE NonFinite
SubF(a, b) == IF IsFinite(a) /\ IsFinite(b) THEN Fin(a.v - b.v) ELSE NonFinite

----------------------------------------------------------------------------
\* primitives.rs

Point(x, y) == [x |-> x, y |-> y]
Color(r, g, b, a) == [r |-> r, g |-> g, b |-> b, a |-> a]
Stroke(color, width) == [color |-> color, width |-> width]

DefaultColor == Color(0, 0, 0, 255)
DefaultPoint == Point(Fin(0), Fin(0))
DefaultStroke == Stroke(Some(DefaultColor), Fin(2 * Sub))

Circle(position, radius, fill, stroke) ==
    [type |-> "Circle", position |-> position, radius |-> radius,
     fill |-> fill, stroke |-> stroke]
Line(start, end, stroke) ==
    [type |-> "Line", start |-> start, end |-> end, stroke |-> stroke]
Rectangle(position, width, height, fill, stroke) ==
    [type |-> "Rectangle", position |-> position, width |-> width,
     height |-> height, fill |-> fill, stroke |-> stroke]
Polygon(points, fill, stroke) ==
    [type |-> "Polygon", points |-> points, fill |-> fill, stroke |-> stroke]
Text(position, content, font_size, color) ==
    [type |-> "Text", position |-> position, content |-> content,
     font_size |-> font_size, color |-> color]

----------------------------------------------------------------------------
\* Pixmap: width x height premultiplied RGBA8 pixels, row-major.

NoPixmap == [width |-> 0, height |-> 0, data |-> <<>>]

\* SkiaColor::WHITE
SkiaWhite == Color(255, 255, 255, 255)

\* Pixmap::new: None for an empty size, else a zeroed (transparent) buffer.
PixmapNew(width, height) ==
    IF width = 0 \/ height = 0
    THEN None
    ELSE Some([width |-> width, height |-> height,
               data |-> [i \in 1..(width * height) |-> Color(0, 0, 0, 0)]])

\* A colour premultiplied by its alpha and rounded to 8 bits per channel.
PremulChan(c, a) == (2 * c * a + 255) \div 510
Premultiply(c) ==
    Color(PremulChan(c.r, c.a), PremulChan(c.g, c.a), PremulChan(c.b, c.a), c.a)

\* A fill that leaves the buffer as it was allocated.
PixmapFillSkipped(pm, color) == pm

\* Pixmap::fill(color): every pixel becomes the (premultiplied) colour.
PixmapFill(pm, color) ==
    [pm EXCEPT !.data = [i \in DOMAIN pm.data |-> Premultiply(color)]]

PixelX(pm, i) == (i - 1) % pm.width
PixelY(pm, i) == (i - 1) \div pm.width
PixelIndex(pm, x, y) == y * pm.width + x + 1

\* to_skia_color / create_paint
ToSkiaColor(color) == Color(color.r, color.g, color.b, color.a)
CreatePaint(color) == [color |-> ToSkiaColor(color), anti_alias |-> TRUE]

\* create_stroke: always Some; only the width is carried over, as f32.
CreateStroke(stroke) == Some([width |-> AsF32(stroke.width)])

----------------------------------------------------------------------------
\* Source-over compositing of a paint at a given coverage (0..255).

Div255(v) == (v + 255) \div 256

SourceOverChan(s, sa, d, cov) ==
    Div255(s * cov) + Div255(d * (255 - Div255(sa * cov)))

SourceOver(color, d, cov) ==
    LET s == Premultiply(color) IN
    Color(SourceOverChan(s.r, s.a, d.r, cov), SourceOverChan(s.g, s.a, d.g, cov),
          SourceOverChan(s.b, s.a, d.b, cov), SourceOverChan(s.a, s.a, d.a, cov))

----------------------------------------------------------------------------
\* Paths.  A PathBuilder collects f32 points; finish() gives a Path or None.

PolyBuilder(pts, closed) ==
    [kind |-> "poly", pts |-> pts, closed |-> closed,
     verbs |-> Len(pts) + (IF closed /\ Len(pts) > 0 THEN 1 ELSE 0),
     c |-> DefaultPoint, r |-> Fin(0)]

\* The four cubic segments of draw_circle start and end on the cardinal points.
CircleBuilder(cx, cy, r) ==
    [kind |-> "circle",
     pts |-> << Point(SubF(cx, r), cy), Point(cx, SubF(cy, r)),
                Point(AddF(cx, r), cy), Point(cx, AddF(cy, r)) >>,
     closed |-> TRUE, verbs |-> 6, c |-> Point(cx, cy), r |-> r]

\* PathBuilder::finish: None for an empty or single-verb path and for a path
\* whose bounds are not finite.
PathFinish(pb) ==
    IF pb.verbs <= 1 \/ \E i \in DOMAIN pb.pts :
                           ~IsFinite(pb.pts[i].x) \/ ~IsFinite(pb.pts[i].y)
    THEN None
    ELSE Some(pb)

----------------------------------------------------------------------------
\* Rasterisation.  A pixel is sampled at the centres of its Sub x Sub cells;
\* sample coordinates and path points are doubled so that all are integers.

SubCells == 0..(Sub - 1)
Sample(p, i) == 2 * (p * Sub + i) + 1
Dbl(p) == [x |-> 2 * p.x.v, y |-> 2 * p.y.v]
Abs(n) == IF n < 0 THEN -n ELSE n

Cross(a, b, X, Y) == (b.x - a.x) * (Y - a.y) - (X - a.x) * (b.y - a.y)

EdgeWinding(a, b, X, Y) ==
    IF a.y < Y /\ Y < b.y /\ Cross(a, b, X, Y) > 0 THEN 1
    ELSE IF b.y < Y /\ Y < a.y /\ Cross(a, b, X, Y) < 0 THEN -1
    ELSE 0

\* The winding number of the contour (closed for filling) around a sample.
RECURSIVE WindingSum(_, _, _, _)
WindingSum(pts, i, X, Y) ==
    IF i > Len(pts) THEN 0
    ELSE EdgeWinding(Dbl(pts[i]), Dbl(pts[(i % Len(pts)) + 1]), X, Y)
         + WindingSum(pts, i + 1, X, Y)

\* FillRule::Winding: inside where the winding number is not zero.
FillInside(path, X, Y) ==
    IF path.kind = "circle"
    THEN LET c == Dbl(path.c) IN
         (X - c.x) * (X - c.x) + (Y - c.y) * (Y - c.y)
             <= 4 * path.r.v * path.r.v
    ELSE WindingSum(path.pts, 1, X, Y) # 0

\* The band of a segment under a butt cap: within half the width of it.
InBand(a, b, w, X, Y) ==
    LET dx == b.x - a.x
        dy == b.y - a.y
        dd == dx * dx + dy * dy
        t == (X - a.x) * dx + (Y - a.y) * dy
        cr == Cross(a, b, X, Y)
    IN dd > 0 /\ 0 <= t /\ t <= dd /\ cr * cr <= w * w * dd

\* The join at a vertex of a closed contour (a square of the stroke's width).
InJoin(pts, i, w, X, Y) ==
    LET n == Len(pts)
        v == Dbl(pts[i])
    IN /\ \E j \in {(i % n) + 1, ((i + n - 2) % n) + 1} : pts[j] # pts[i]
       /\ Abs(X - v.x) <= w /\ Abs(Y - v.y) <= w

StrokeInside(path, w, X, Y) ==
    IF path.kind = "circle"
    THEN LET c == Dbl(path.c)
             R == 2 * Abs(path.r.v)
             d2 == (X - c.x) * (X - c.x) + (Y - c.y) * (Y - c.y)
         IN /\ R > 0
            /\ d2 <= (R + w) * (R + w)
            /\ (R <= w \/ d2 >= (R - w) * (R - w))
    ELSE LET n == Len(path.pts) IN
         \/ \E i \in 1..(IF path.closed THEN n ELSE n - 1) :
                InBand(Dbl(path.pts[i]), Dbl(path.pts[(i % n) + 1]), w, X, Y)
         \/ path.closed /\ \E i \in 1..n : InJoin(path.pts, i, w, X, Y)

FillCoverage(path, px, py) ==
    Cardinality({s \in SubCells \X SubCells :
                   FillInside(path, Sample(px, s[1]), Sample(py, s[2]))})

StrokeCoverage(path, w, px, py) ==
    Cardinality({s \in SubCells \X SubCells :
                   StrokeInside(path, w, Sample(px, s[1]), Sample(py, s[2]))})

\* Samples covered, as the 8-bit coverage the blitter scales the paint by.
Coverage8(n) == (255 * n) \div (Sub * Sub)

\* A path whose bounds have no width or no height cannot be filled.
EmptyBounds(path) ==
    IF path.kind = "circle"
    THEN path.r.v = 0
    ELSE \/ \A i \in DOMAIN path.pts : path.pts[i].x = path.pts[1].x
         \/ \A i \in DOMAIN path.pts : path.pts[i].y = path.pts[1].y

\* Pixmap::fill_path(path, paint, FillRule::Winding, identity, None)
FillPath(pm, path, paint) ==
    IF EmptyBounds(path)
    THEN pm
    ELSE [pm EXCEPT !.data = [i \in DOMAIN pm.data |->
            SourceOver(paint.color, pm.data[i],
                Coverage8(FillCoverage(path, PixelX(pm, i), PixelY(pm, i))))]]

\* The device width of a stroke: a zero width is a hairline, one pixel wide.
StrokeWidth(stroke) == IF stroke.width.v = 0 THEN Sub ELSE stroke.width.v

\* Pixmap::stroke_path(path, paint, stroke, identity, None): nothing is drawn
\* for a negative or non-finite width.
StrokePath(pm, path, paint, stroke) ==
    IF ~IsFinite(stroke.width) \/ stroke.width.v < 0
    THEN pm
    ELSE [pm EXCEPT !.data = [i \in DOMAIN pm.data |->
            SourceOver(paint.color, pm.data[i],
                Coverage8(StrokeCoverage(path, StrokeWidth(stroke),
                                         PixelX(pm, i), PixelY(pm, i))))]]

----------------------------------------------------------------------------
\* The draw_* methods return Ok(()) or an io::Error; pm is the pixmap they
\* leave behind either way.

DrawOk(pm) == [ok |-> TRUE, pm |-> pm, msg |-> ""]
DrawErr(pm, msg) == [ok |-> FALSE, pm |-> pm, msg |-> msg]

\* A fill block that falls back on the default colour.
FillOrDefault(pm, path, fill) ==
    FillPath(pm, path, CreatePaint(IF fill.some THEN fill.val ELSE DefaultColor))

\* "Fill if specified"
FillIfSpecified(pm, path, fill) ==
    IF fill.some THEN FillPath(pm, path, CreatePaint(fill.val)) ELSE pm

\* A stroke block that also draws, in the default colour, a stroke that has
\* a width and no colour.
StrokeByWidth(pm, path, stroke) ==
    IF stroke.some /\ (stroke.val.color.some
                         \/ (IsFinite(stroke.val.width) /\ stroke.val.width.v > 0))
    THEN DrawOk(StrokePath(pm, path,
                    CreatePaint(IF stroke.val.color.some
                                THEN stroke.val.color.val ELSE DefaultColor),
                    CreateStroke(stroke.val).val))
    ELSE DrawOk(pm)

\* "Stroke if specified": only a stroke that has a colour is drawn.
StrokeIfSpecified(pm, path, stroke) ==
    IF stroke.some /\ stroke.val.color.some
    THEN LET paint == CreatePaint(stroke.val.color.val)
             skia_stroke == CreateStroke(stroke.val)
         IN IF ~skia_stroke.some
            THEN DrawErr(pm, "Failed to create stroke")
            ELSE DrawOk(StrokePath(pm, path, paint, skia_stroke.val))
    ELSE DrawOk(pm)

\* The path each draw_* method builds and finishes.
CirclePath(position, radius) ==
    PathFinish(CircleBuilder(AsF32(position.x), AsF32(position.y), AsF32(radius)))

LinePath(start, end) ==
    PathFinish(PolyBuilder(<< Point(AsF32(start.x), AsF32(start.y)),
                              Point(AsF32(end.x), AsF32(end.y)) >>, FALSE))

RectanglePath(position, width, height) ==
    LET x == AsF32(position.x)
        y == AsF32(position.y)
        w == AsF32(width)
        h == AsF32(height)
    IN PathFinish(PolyBuilder(
           << Point(x, y), Point(AddF(x, w), y),
              Point(AddF(x, w), AddF(y, h)), Point(x, AddF(y, h)) >>, TRUE))

PolygonPath(points) ==
    PathFinish(PolyBuilder(
        [i \in DOMAIN points |-> Point(AsF32(points[i].x), AsF32(points[i].y))],
        TRUE))

DrawCircle(pm, position, radius, fill, stroke) ==
    LET path == CirclePath(position, radius) IN
    IF ~path.some
    THEN DrawErr(pm, "Failed to build circle path")
    ELSE StrokeIfSpecified(FillIfSpecified(pm, path.val, fill), path.val, stroke)

DrawLine(pm, start, end, stroke) ==
    LET path == LinePath(start, end) IN
    IF ~path.some
    THEN DrawErr(pm, "Failed to build line path")
    ELSE StrokeIfSpecified(pm, path.val, stroke)

\* draw_rectangle with its two blocks swapped: the stroke, then the fill.
DrawRectangleStrokeFirst(pm, position, width, height, fill, stroke) ==
    LET path == RectanglePath(position, width, height) IN
    IF ~path.some
    THEN DrawErr(pm, "Failed to build rectangle path")
    ELSE LET stroked == StrokeIfSpecified(pm, path.val, stroke) IN
         [stroked EXCEPT !.pm = FillIfSpecified(stroked.pm, path.val, fill)]

DrawRectangle(pm, position, width, height, fill, stroke) ==
    LET path == RectanglePath(position, width, height) IN
    IF ~path.some
    THEN DrawErr(pm, "Failed to build rectangle path")
    ELSE StrokeIfSpecified(FillIfSpecified(pm, path.val, fill), path.val, stroke)

\* draw_polygon without its early return for an empty point list.
DrawPolygonUnguarded(pm, points, fill, stroke) ==
    LET path == PolygonPath(points) IN
    IF ~path.some
    THEN DrawErr(pm, "Failed to build polygon path")
    ELSE StrokeIfSpecified(FillIfSpecified(pm, path.val, fill), path.val, stroke)

DrawPolygon(pm, points, fill, stroke) ==
    IF Len(points) = 0
    THEN DrawOk(pm)
    ELSE LET path == PolygonPath(points) IN
         IF ~path.some
         THEN DrawErr(pm, "Failed to build polygon path")
         ELSE StrokeIfSpecified(FillIfSpecified(pm, path.val, fill),
                                path.val, stroke)

\* The match of render's loop body: what one command does to the pixmap.
ApplyCommand(pm, c) ==
    CASE c.type = "Circle" ->
            DrawCircle(pm, c.position, c.radius, c.fill, c.stroke)
      [] c.type = "Line" -> DrawLine(pm, c.start, c.end, c.stroke)
      [] c.type = "Rectangle" ->
            DrawRectangle(pm, c.position, c.width, c.height, c.fill, c.stroke)
      [] c.type = "Polygon" -> DrawPolygon(pm, c.points, c.fill, c.stroke)
      [] c.type = "Text" -> DrawOk(pm)

----------------------------------------------------------------------------
\* The inputs the model draws from.  S is one pixel, H half a pixel.

S == Sub
H == Sub \div 2
P(x, y) == Point(Fin(x), Fin(y))

Red == Color(255, 0, 0, 255)
Blue == Color(0, 0, 255, 255)
Green200 == Color(0, 255, 0, 200)
DarkGreen == Color(0, 128, 0, 255)
Veil == Color(0, 0, 0, 128)
Invisible == Color(0, 0, 0, 0)

Pen(color) == Some(Stroke(Some(color), Fin(S)))
NoPen(width) == Some(Stroke(None, width))

Triangle == << P(H, H), P(2 * S + H, H), P(H, 2 * S + H) >>
Centre == P(S + H, S)

RectangleCmds ==
    {Rectangle(P(0, 0), Fin(2 * S), Fin(2 * S), Some(Red), None),
     Rectangle(P(S, 0), Fin(2 * S), Fin(2 * S), Some(Blue), None)}
    \cup {Rectangle(P(H, H), Fin(2 * S), Fin(2 * S), Some(Red), s) :
            s \in {Pen(DefaultColor), Pen(Invisible), NoPen(Fin(S))}}
    \cup {Rectangle(P(H, 0), Fin(S), Fin(2 * S), Some(Green200), None),
          Rectangle(Point(NonFinite, Fin(0)), Fin(S), Fin(S), Some(Red), None)}

CircleCmds ==
    {Circle(Centre, Fin(S), None, None),
     Circle(Centre, Fin(S), Some(Red), Pen(Veil)),
     Circle(Centre, Fin(S), Some(Red), NoPen(Fin(0))),
     Circle(Centre, BigF64, Some(Red), None)}

LineCmds ==
    {Line(P(0, H), P(3 * S, H), Pen(DefaultColor)),
     Line(P(0, H), P(3 * S, H), None),
     Line(P(0, H), P(3 * S, H), NoPen(Fin(2 * S))),
     Line(P(0, 0), Point(Fin(S), NonFinite), Some(DefaultStroke))}

PolygonCmds ==
    {Polygon(Triangle, Some(Green200), Pen(DarkGreen)),
     Polygon(Triangle, Some(Blue), NoPen(Fin(-S))),
     Polygon(<<>>, Some(Red), Some(DefaultStroke)),
     Polygon(<< P(0, 0), Point(BigF64, Fin(S)) >>, Some(Red), None)}

TextCmds == {Text(P(S, S), "a", 12, Some(Red))}

Commands == RectangleCmds \cup CircleCmds \cup LineCmds \cup PolygonCmds \cup TextCmds

\* The few commands the two-call specification draws from.
FewCommands ==
    {Rectangle(P(0, 0), Fin(2 * S), Fin(2 * S), Some(Red), None),
     Circle(Centre, Fin(S), Some(Red), Pen(Veil)),
     Line(P(0, H), P(3 * S, H), Pen(DefaultColor)),
     Line(P(0, 0), Point(Fin(S), NonFinite), Some(DefaultStroke)),
     Polygon(Triangle, Some(Green200), Pen(DarkGreen)),
     Text(P(S, S), "a", 12, Some(Red))}

CommandLists(U, max) == UNION {[1..n -> U] : n \in 0..max}

Renderers ==
    [width : {0, CanvasW}, height : {CanvasH}, file_path : {"test_output.png"}]

----------------------------------------------------------------------------
\* Data sources (src/src/data_source_self.rs, src/src/data_sources.rs).
\* A polars Series is a name, a dtype and a chunked array of values; a
\* DataFrame is a list of columns of one height with distinct names.  An f64
\* value is modelled by an integer.

Float64 == "Float64"
DataTypes == {Float64, "Int64", "String"}

Series(name, dtype, values, n_chunks, null_count) ==
    [name |-> name, dtype |-> dtype, values |-> values,
     n_chunks |-> n_chunks, null_count |-> null_count]

DataFrame(columns) == [kind |-> "DataFrame", columns |-> columns]
SeriesSource(series) == [kind |-> "Series", series |-> series]
NoSource == [kind |-> "none"]

\* PolarsResult<T>
PolarsOk(x) == [ok |-> TRUE, val |-> x]
PolarsErr(variant) == [ok |-> FALSE, err |-> variant]

\* DataFrame::column(name): the column of that name, or ColumnNotFound.
DataFrameColumn(df, name) ==
    IF \E i \in DOMAIN df.columns : df.columns[i].name = name
    THEN PolarsOk(df.columns[CHOOSE i \in DOMAIN df.columns :
                                df.columns[i].name = name])
    ELSE PolarsErr("ColumnNotFound")

\* Series::f64 / Column::f64: the array as Float64Chunked, or SchemaMismatch
\* when the dtype is another one.
AsF64Chunked(series) ==
    IF series.dtype = Float64 THEN PolarsOk(series) ELSE PolarsErr("SchemaMismatch")

\* ChunkedArray::cont_slice: the values of an array of one chunk without
\* nulls, or ComputeError.
ContSlice(ca) ==
    IF ca.n_chunks = 1 /\ ca.null_count = 0
    THEN PolarsOk(ca.values)
    ELSE PolarsErr("ComputeError")

\* Result<&[f64], DataError>
NoAnswer == [status |-> "none"]
OkSlice(values) == [status |-> "ok", val |-> values]
DataError(variant, msg) == [status |-> "err", variant |-> variant, msg |-> msg]

\* DataError::TypeMismatch(format!("Column '{}' is not f64", name))
TypeMismatch(name) == DataError("TypeMismatch", <<"Column '", name, "' is not f64">>)

\* impl From<PolarsError> for DataError, as `?` and map_err(Into::into) apply it.
FromPolarsError(err) == DataError("PolarsError", <<err>>)

\* `<column>.f64()?.cont_slice().map_err(Into::into)`
F64ContSlice(series) ==
    LET ca == AsF64Chunked(series) IN
    IF ~ca.ok THEN FromPolarsError(ca.err)
    ELSE LET slice == ContSlice(ca.val) IN
         IF slice.ok THEN OkSlice(slice.val) ELSE FromPolarsError(slice.err)

\* impl DataSourceSelf for DataFrame: has_columns
DataFrameHasColumns(df, name) ==
    \E i \in DOMAIN df.columns : df.columns[i].name = name

\* impl DataSourceSelf for DataFrame: get_numeric_column
DataFrameGetNumericColumn(df, name) ==
    LET column == DataFrameColumn(df, name) IN
    IF ~column.ok THEN FromPolarsError(column.err)
    ELSE IF column.val.dtype # Float64 THEN TypeMismatch(name)
    ELSE F64ContSlice(column.val)

\* impl DataSourceSelf for Series: get_numeric_column
SeriesGetNumericColumn(series, name) ==
    IF series.dtype = Float64 THEN TypeMismatch(name)
    ELSE F64ContSlice(series)

\* The data sources and column names of the calls.
ColumnNames == {"x", "y"}
QueryNames == ColumnNames \cup {"z"}

\* Column values: n rows counted up from a base, so that two columns differ.
ColumnValues(n) == {[i \in 1..n |-> base + i] : base \in {0, 10}}

SeriesOfHeight(n) ==
    {Series(name, dtype, values, n_chunks, null_count) :
        name \in ColumnNames, dtype \in DataTypes, values \in ColumnValues(n),
        n_chunks \in {1, 2}, null_count \in {k \in {0, 1} : k <= n}}

DataFrames ==
    UNION {{DataFrame(columns) :
              columns \in {cs \in UNION {[1..k -> SeriesOfHeight(n)] : k \in 0..2} :
                             \A i, j \in DOMAIN cs : cs[i].name = cs[j].name => i = j}} :
           n \in 0..MaxRows}

Sources ==
    DataFrames \cup {SeriesSource(s) : s \in UNION {SeriesOfHeight(n) : n \in 0..MaxRows}}

----------------------------------------------------------------------------
\* render's return value.

Pending == [status |-> "pending", msg |-> ""]
Ok == [status |-> "ok", msg |-> ""]
Err(msg) == [status |-> "err", msg |-> msg]

NoCall ==
    [valid |-> FALSE, commands |-> <<>>, width |-> 0, height |-> 0,
     result |-> Pending, sinkCalls |-> 0, pixels |-> NoPixmap]

\* PngRenderer::new, and the state before the first call.
InitRenderer ==
    /\ renderer \in Renderers
    /\ pc = "idle"
    /\ commands = <<>>
    /\ idx = 0
    /\ pixels = NoPixmap
    /\ before = NoPixmap
    /\ result = Pending
    /\ sinkCalls = 0
    /\ persisted = NoPixmap
    /\ printed = <<>>
    /\ prev = NoCall

\* The renderer alone: no data source is held.
Init ==
    /\ InitRenderer
    /\ source = NoSource
    /\ query = ""
    /\ answer = NoAnswer

\* PngRenderer::new again: the caller constructs another renderer.
NewRenderer ==
    /\ pc = "idle"
    /\ \E r \in Renderers \ {renderer} : renderer' = r
    /\ UNCHANGED <<pc, commands, idx, pixels, before, result, sinkCalls,
                   persisted, printed, prev>>
    /\ UNCHANGED dataVars

\* A canvas kept from an earlier call of the same size instead of a new one.
ReusedCanvas(width, height) ==
    IF prev.valid /\ prev.pixels.width = width /\ prev.pixels.height = height
    THEN Some(prev.pixels)
    ELSE LET pm == PixmapNew(width, height) IN
         IF pm.some THEN Some(PixmapFill(pm.val, SkiaWhite)) ELSE None

\* The canvas render starts from: a new pixmap filled with white, if there
\* is memory for one.
NewCanvas(width, height) ==
    LET pm == PixmapNew(width, height) IN
    IF pm.some THEN Some(PixmapFill(pm.val, SkiaWhite)) ELSE None

\* render, up to the loop: allocate the pixmap and fill it, or fail.
RenderCall(cmds) ==
    /\ commands' = cmds
    /\ LET pm == NewCanvas(renderer.width, renderer.height) IN
       IF ~pm.some
       THEN /\ result' = Err("Failed to create pixmap")
            /\ pc' = "returned"
            /\ pixels' = NoPixmap
            /\ idx' = 0
       ELSE /\ result' = Pending
            /\ pc' = "loop"
            /\ pixels' = pm.val
            /\ idx' = 1
    /\ UNCHANGED <<renderer, before, sinkCalls, persisted, printed, prev>>
    /\ UNCHANGED dataVars

Render ==
    /\ pc = "idle"
    /\ \E cmds \in CommandLists(Commands, MaxCmds) : RenderCall(cmds)

RenderFew ==
    /\ pc = "idle"
    /\ \E cmds \in CommandLists(FewCommands, MaxCmdsTwice) : RenderCall(cmds)

\* A loop that walks the slice from its end.
NextCommandReversed == commands[Len(commands) + 1 - idx]

\* `for command in commands`: the command of the current iteration.
NextCommand == commands[idx]

InLoop(type) ==
    pc = "loop" /\ idx <= Len(commands) /\ NextCommand.type = type

\* An iteration that drops the error of a command and goes on.
IterateSkippingErrors(r) ==
    /\ before' = pixels
    /\ pixels' = r.pm
    /\ idx' = idx + 1
    /\ UNCHANGED <<pc, result>>
    /\ UNCHANGED <<renderer, commands, sinkCalls, persisted, prev>>
    /\ UNCHANGED dataVars

\* One iteration ends: `?` returns the error, otherwise the loop goes on.
Iterate(r) ==
    /\ before' = pixels
    /\ pixels' = r.pm
    /\ IF r.ok
       THEN idx' = idx + 1 /\ UNCHANGED <<pc, result>>
       ELSE pc' = "returned" /\ result' = Err(r.msg) /\ UNCHANGED idx
    /\ UNCHANGED <<renderer, commands, sinkCalls, persisted, prev>>
    /\ UNCHANGED dataVars

CircleCmd ==
    /\ InLoop("Circle")
    /\ LET c == NextCommand IN
       Iterate(DrawCircle(pixels, c.position, c.radius, c.fill, c.stroke))
    /\ UNCHANGED printed

LineCmd ==
    /\ InLoop("Line")
    /\ LET c == NextCommand IN Iterate(DrawLine(pixels, c.start, c.end, c.stroke))
    /\ UNCHANGED printed

RectangleCmd ==
    /\ InLoop("Rectangle")
    /\ LET c == NextCommand IN
       Iterate(DrawRectangle(pixels, c.position, c.width, c.height, c.fill,
                             c.stroke))
    /\ UNCHANGED printed

PolygonCmd ==
    /\ InLoop("Polygon")
    /\ LET c == NextCommand IN
       Iterate(DrawPolygon(pixels, c.points, c.fill, c.stroke))
    /\ UNCHANGED printed

\* A Text arm that reports the missing text rendering as an error.
TextCmdRejected ==
    /\ InLoop("Text")
    /\ Iterate(DrawErr(pixels, "Text rendering not yet implemented"))
    /\ UNCHANGED printed

\* Text is not rasterised: a notice is printed and the loop goes on.
TextCmd ==
    /\ InLoop("Text")
    /\ LET c == NextCommand IN
       printed' = Append(printed, [content |-> c.content, x |-> c.position.x,
                                   y |-> c.position.y])
    /\ Iterate(DrawOk(pixels))

\* A save_png moved into the loop: the pixmap is written while commands are
\* still to be composited.
SavePngEarly ==
    /\ pc = "loop"
    /\ sinkCalls = 0
    /\ sinkCalls' = 1
    /\ persisted' = pixels
    /\ IF idx > Len(commands)
       THEN pc' = "returned" /\ result' = Ok
       ELSE UNCHANGED <<pc, result>>
    /\ UNCHANGED <<renderer, commands, idx, pixels, before, printed, prev>>
    /\ UNCHANGED dataVars

\* After the loop: save_png; its io error, if any, becomes render's.
SavePng ==
    /\ pc = "loop"
    /\ idx > Len(commands)
    /\ sinkCalls' = sinkCalls + 1
    /\ \E written \in BOOLEAN :
          IF written
          THEN persisted' = pixels /\ result' = Ok
          ELSE persisted' = NoPixmap /\ result' = Err("save_png failed")
    /\ pc' = "returned"
    /\ UNCHANGED <<renderer, commands, idx, pixels, before, printed, prev>>
    /\ UNCHANGED dataVars

\* render returns: its locals are gone (the pixmap is dropped) and the result
\* is the caller's.
Return ==
    /\ pc = "returned"
    /\ pc' = "idle"
    /\ commands' = <<>>
    /\ idx' = 0
    /\ pixels' = NoPixmap
    /\ before' = NoPixmap
    /\ result' = Pending
    /\ sinkCalls' = 0
    /\ persisted' = NoPixmap
    /\ printed' = <<>>
    /\ UNCHANGED <<renderer, prev>>
    /\ UNCHANGED dataVars

\* The same return, with an observer who records what the call did, or keeps
\* the record of an earlier call.
ReturnObserved ==
    /\ pc = "returned"
    /\ pc' = "idle"
    /\ commands' = <<>>
    /\ idx' = 0
    /\ pixels' = NoPixmap
    /\ before' = NoPixmap
    /\ result' = Pending
    /\ sinkCalls' = 0
    /\ persisted' = NoPixmap
    /\ printed' = <<>>
    /\ \E keep \in BOOLEAN :
          prev' = IF keep /\ prev.valid
                  THEN prev
                  ELSE [valid |-> TRUE, commands |-> commands,
                        width |-> renderer.width, height |-> renderer.height,
                        result |-> result, sinkCalls |-> sinkCalls,
                        pixels |-> pixels]
    /\ UNCHANGED renderer
    /\ UNCHANGED dataVars

Next ==
    \/ NewRenderer
    \/ Render
    \/ CircleCmd
    \/ LineCmd
    \/ RectangleCmd
    \/ PolygonCmd
    \/ TextCmd
    \/ SavePng
    \/ Return

Spec == Init /\ [][Next]_vars

\* Two and more calls in a row, each recorded when it returns.
NextTwice ==
    \/ NewRenderer
    \/ RenderFew
    \/ CircleCmd
    \/ LineCmd
    \/ RectangleCmd
    \/ PolygonCmd
    \/ TextCmd
    \/ SavePng
    \/ ReturnObserved

SpecTwice == Init /\ [][NextTwice]_vars

\* A program that holds a data source and reads numeric columns from it.
InitData ==
    /\ InitRenderer
    /\ source \in Sources
    /\ query = ""
    /\ answer = NoAnswer

\* df.get_numeric_column(name) on a DataFrame
GetNumericColumnOfDataFrame ==
    /\ source.kind = "DataFrame"
    /\ \E name \in QueryNames :
          /\ query' = name
          /\ answer' = DataFrameGetNumericColumn(source, name)
    /\ UNCHANGED <<source, renderVars>>

\* series.get_numeric_column(name) on a Series
GetNumericColumnOfSeries ==
    /\ source.kind = "Series"
    /\ \E name \in QueryNames :
          /\ query' = name
          /\ answer' = SeriesGetNumericColumn(source.series, name)
    /\ UNCHANGED <<source, renderVars>>

NextData ==
    \/ GetNumericColumnOfDataFrame
    \/ GetNumericColumnOfSeries

SpecData == InitData /\ [][NextData]_vars

----------------------------------------------------------------------------
\* Vocabulary of the properties.

\* The finished path of a command, None when it has none.
PathOf(c) ==
    CASE c.type = "Circle" -> CirclePath(c.position, c.radius)
      [] c.type = "Line" -> LinePath(c.start, c.end)
      [] c.type = "Rectangle" -> RectanglePath(c.position, c.width, c.height)
      [] c.type = "Polygon" ->
            IF Len(c.points) = 0 THEN None ELSE PolygonPath(c.points)
      [] c.type = "Text" -> None

HasFill(c) == c.type \in {"Circle", "Rectangle", "Polygon"} /\ c.fill.some
HasStroke(c) == c.type # "Text" /\ c.stroke.some
HasPen(c) == HasStroke(c) /\ c.stroke.val.color.some
PenWidth(c) == AsF32(c.stroke.val.width)

\* The fill of c is drawn: it has a colour and a path with an area.
FillDrawn(c) == HasFill(c) /\ PathOf(c).some /\ ~EmptyBounds(PathOf(c).val)

\* The pen of c is drawn: it has a colour, a path and a width that strokes.
PenDrawn(c) ==
    HasPen(c) /\ PathOf(c).some /\ IsFinite(PenWidth(c)) /\ PenWidth(c).v >= 0

\* The samples of pixel i of pm.
Samples(pm, i) ==
    {<<Sample(PixelX(pm, i), s[1]), Sample(PixelY(pm, i), s[2])>> :
        s \in SubCells \X SubCells}

\* The fill of c covers some sample, and every sample, of pixel i of pm.
FillTouches(c, pm, i) ==
    FillDrawn(c) /\ \E s \in Samples(pm, i) : FillInside(PathOf(c).val, s[1], s[2])

FillCovers(c, pm, i) ==
    FillDrawn(c) /\ \A s \in Samples(pm, i) : FillInside(PathOf(c).val, s[1], s[2])

\* The pen of c covers some sample, and every sample, of pixel i of pm.
PenTouches(c, pm, i) ==
    /\ PenDrawn(c)
    /\ \E s \in Samples(pm, i) :
          StrokeInside(PathOf(c).val, StrokeWidth([width |-> PenWidth(c)]),
                       s[1], s[2])

PenCovers(c, pm, i) ==
    /\ PenDrawn(c)
    /\ \A s \in Samples(pm, i) :
          StrokeInside(PathOf(c).val, StrokeWidth([width |-> PenWidth(c)]),
                       s[1], s[2])

Touches(c, pm, i) == FillTouches(c, pm, i) \/ PenTouches(c, pm, i)

\* Commands whose iteration has ended without an error.
Processed == IF idx = 0 THEN 0 ELSE idx - 1

\* The loop has just completed the iteration of commands[idx - 1].
JustDone == pc = "loop" /\ idx > 1

\* render has returned the error of commands[idx].
CommandError ==
    /\ pc = "returned"
    /\ result.status = "err"
    /\ result.msg \notin {"Failed to create pixmap", "save_png failed"}

WhiteCanvas(width, height) ==
    [width |-> width, height |-> height,
     data |-> [i \in 1..(width * height) |-> SkiaWhite]]

SameRGB(px, color) == px.r = color.r /\ px.g = color.g /\ px.b = color.b

\* Whether the path of a command cannot be built.
PathFails(c) ==
    /\ c.type # "Text"
    /\ ~(c.type = "Polygon" /\ Len(c.points) = 0)
    /\ ~PathOf(c).some

BuildError(c) ==
    CASE c.type = "Circle" -> "Failed to build circle path"
      [] c.type = "Line" -> "Failed to build line path"
      [] c.type = "Rectangle" -> "Failed to build rectangle path"
      [] c.type = "Polygon" -> "Failed to build polygon path"

----------------------------------------------------------------------------
\* C1: commands are composited in list order.  At every moment of a render,
\* a pixel that lies wholly inside an opaque filled rectangle already
\* processed, and that neither the rectangle's own pen nor any command
\* processed after it touches, has the rectangle's fill colour: whatever
\* earlier commands (another opaque rectangle, or the white background) put
\* there is gone.  So where R1 and R2 overlap and R2 comes later, the
\* overlap shows R2's colour, and a pixel under one opaque fill shows that
\* fill, not white.
C1_LaterCommandsOcclude ==
    pixels # NoPixmap =>
        \A i \in DOMAIN pixels.data : \A j \in 1..Processed :
            LET c == commands[j] IN
            (c.type = "Rectangle" /\ HasFill(c) /\ c.fill.val.a = 255) =>
                \/ pixels.data[i] = ToSkiaColor(c.fill.val)
                \/ ~FillCovers(c, pixels, i)
                \/ PenTouches(c, pixels, i)
                \/ \E k \in (j + 1)..Processed : Touches(commands[k], pixels, i)

\* A red rectangle, then a blue one overlapping it, have been rendered and
\* saved: the overlap is blue, the rest of the red one red.
C1_Witness ==
    /\ pc = "returned"
    /\ result = Ok
    /\ commands = << Rectangle(P(0, 0), Fin(2 * S), Fin(2 * S), Some(Red), None),
                     Rectangle(P(S, 0), Fin(2 * S), Fin(2 * S), Some(Blue), None) >>
    /\ persisted.data[PixelIndex(persisted, 1, 0)] = Blue
    /\ persisted.data[PixelIndex(persisted, 0, 0)] = Red
    /\ persisted.data[PixelIndex(persisted, 2, 1)] = Blue

----------------------------------------------------------------------------
\* C2 as claimed: once a command with a fill colour and a stroke with a
\* colour has been processed, every pixel that the outline's band covers
\* wholly shows the stroke colour.
C2_StrokeColorOnOutline ==
    JustDone =>
        LET c == commands[idx - 1] IN
        (HasFill(c) /\ HasPen(c)) =>
            \A i \in DOMAIN pixels.data :
                PenCovers(c, pixels, i)
                    => SameRGB(pixels.data[i], c.stroke.val.color.val)

\* C2, amended: the stroke of a command with a fill colour and a stroke
\* colour is composited after the fill of the same command and before the
\* next command: the pixmap after the command is the stroke over the fill
\* over the pixmap before it.  A pixel the outline's band covers wholly shows
\* the stroke colour when that colour is opaque; a translucent stroke colour
\* is blended with the fill under it.
C2_StrokeOverFill ==
    JustDone =>
        LET c == commands[idx - 1] IN
        (HasFill(c) /\ HasPen(c) /\ PathOf(c).some) =>
            /\ pixels = StrokePath(
                            FillPath(before, PathOf(c).val, CreatePaint(c.fill.val)),
                            PathOf(c).val, CreatePaint(c.stroke.val.color.val),
                            [width |-> PenWidth(c)])
            /\ \A i \in DOMAIN pixels.data :
                   (c.stroke.val.color.val.a = 255 /\ PenCovers(c, pixels, i))
                       => pixels.data[i] = ToSkiaColor(c.stroke.val.color.val)

\* A red rectangle with a black pen has just been drawn over a canvas that was
\* not blank: its corner pixel is black, its inner pixel red.
C2_Witness ==
    /\ JustDone
    /\ idx = 3
    /\ commands[2] = Rectangle(P(H, H), Fin(2 * S), Fin(2 * S), Some(Red),
                               Pen(DefaultColor))
    /\ before # WhiteCanvas(CanvasW, CanvasH)
    /\ pixels.data[PixelIndex(pixels, 0, 0)] = DefaultColor
    /\ pixels.data[PixelIndex(pixels, 1, 1)] = Red

----------------------------------------------------------------------------
\* C3: a failed render is abandoned at once.  When render has returned and
\* the pixmap could not be allocated, the result is that error and no
\* command was begun; when some command's path cannot be built, the result
\* is the error of the first such command, the loop stopped there, and the
\* failing command left the pixmap as it was.  In both cases, and whenever
\* the error is not save_png's own, save_png was never called and no image
\* was persisted.
C3_FailureAborts ==
    pc = "returned" =>
        LET failing == {j \in DOMAIN commands : PathFails(commands[j])}
            first == CHOOSE j \in failing : \A k \in failing : j <= k
        IN  /\ ~PixmapNew(renderer.width, renderer.height).some =>
                /\ result = Err("Failed to create pixmap")
                /\ idx = 0
                /\ pixels = NoPixmap
            /\ (PixmapNew(renderer.width, renderer.height).some /\ failing # {}) =>
                /\ result = Err(BuildError(commands[first]))
                /\ idx = first
                /\ pixels = before
            /\ (result.status = "err" /\ result.msg # "save_png failed") =>
                /\ sinkCalls = 0
                /\ persisted = NoPixmap
            /\ (PixmapNew(renderer.width, renderer.height).some /\ failing = {}) =>
                sinkCalls = 1

\* render has returned the error of the first of two commands; the second,
\* a filled rectangle, was never drawn and nothing was saved.
C3_Witness ==
    /\ CommandError
    /\ Len(commands) = 2
    /\ idx = 1
    /\ commands[2] = Rectangle(P(0, 0), Fin(2 * S), Fin(2 * S), Some(Red), None)
    /\ pixels = WhiteCanvas(CanvasW, CanvasH)
    /\ sinkCalls = 0

----------------------------------------------------------------------------
\* The command whose iteration has just ended, with or without an error.

Ended == JustDone \/ CommandError
EndedCommand == IF JustDone THEN commands[idx - 1] ELSE commands[idx]
EndedOutcome == IF JustDone THEN DrawOk(pixels) ELSE DrawErr(pixels, result.msg)

WithStroke(c, s) == [c EXCEPT !.stroke = s]

\* Stroke widths: negative, zero, one pixel, five pixels, NaN, out of range.
Widths == {Fin(-S), Fin(0), Fin(S), Fin(5 * S), NonFinite, BigF64}

\* C4: a stroke without a colour is no stroke.  When the iteration of a
\* command (of any shape) whose stroke is Some(Stroke{color: None, width})
\* has ended, it ended as the same command with stroke: None ends on the
\* same pixmap: the same Ok or error, the same pixels; and so the command
\* does with every other width too.
C4_ColorlessStrokeIsNoStroke ==
    Ended =>
        LET c == EndedCommand IN
        (HasStroke(c) /\ ~c.stroke.val.color.some) =>
            LET plain == ApplyCommand(before, WithStroke(c, None)) IN
            /\ EndedOutcome = plain
            /\ \A w \in Widths :
                   ApplyCommand(before, WithStroke(c, NoPen(w))) = plain

\* A red rectangle whose stroke has a width and no colour has just been
\* drawn, as the second command: it changed the pixmap (by its fill).
C4_Witness ==
    /\ JustDone
    /\ idx = 3
    /\ commands[2] = Rectangle(P(H, H), Fin(2 * S), Fin(2 * S), Some(Red),
                               NoPen(Fin(S)))
    /\ pixels # before

----------------------------------------------------------------------------
\* C5: a command with no fill and no stroke (a Line: no stroke) leaves the
\* pixmap exactly as it was before the command, whether its path could be
\* built or not.
C5_NoStyleNoChange ==
    Ended =>
        LET c == EndedCommand IN
        (c.type # "Text" /\ ~HasStroke(c) /\ (c.type = "Line" \/ ~c.fill.some))
            => pixels = before

\* A circle with neither fill nor stroke has just been processed on a canvas
\* an earlier command had drawn on.
C5_Witness ==
    /\ JustDone
    /\ idx = 3
    /\ commands[2] = Circle(Centre, Fin(S), None, None)
    /\ before # WhiteCanvas(CanvasW, CanvasH)

----------------------------------------------------------------------------
\* C6: the iteration of a Polygon with no points never ends in an error:
\* it ends with the loop going on to the next command (or to save_png) and
\* with the pixmap as it was, whatever the polygon's fill and stroke.
C6_EmptyPolygonIsNoOp ==
    Ended =>
        LET c == EndedCommand IN
        (c.type = "Polygon" /\ Len(c.points) = 0) =>
            /\ JustDone
            /\ result = Pending
            /\ pixels = before

\* An empty polygon with a fill and a stroke was the first of two commands;
\* the loop is at the second.
C6_Witness ==
    /\ JustDone
    /\ idx = 2
    /\ Len(commands) = 2
    /\ commands[1] = Polygon(<<>>, Some(Red), Some(DefaultStroke))

----------------------------------------------------------------------------
\* The Text commands among the first n.
RECURSIVE TextsAmong(_, _)
TextsAmong(cmds, n) ==
    IF n = 0 THEN 0
    ELSE TextsAmong(cmds, n - 1) + (IF cmds[n].type = "Text" THEN 1 ELSE 0)

\* C7: the iteration of a Text command never ends in an error and leaves
\* the pixmap as it was; it prints one notice.  A render of Text commands
\* only, on a canvas that could be allocated, reaches save_png with an
\* all-white pixmap, and its result is Ok unless save_png itself fails.
C7_TextIsNoOp ==
    /\ Ended =>
        ( EndedCommand.type = "Text" =>
            /\ JustDone
            /\ result = Pending
            /\ pixels = before )
    /\ pc # "idle" => Len(printed) = TextsAmong(commands, Processed)
    /\ ( /\ pc = "returned"
         /\ pixels # NoPixmap
         /\ \A j \in DOMAIN commands : commands[j].type = "Text" ) =>
            /\ sinkCalls = 1
            /\ pixels = WhiteCanvas(renderer.width, renderer.height)
            /\ \/ result = Ok /\ persisted = pixels
               \/ result = Err("save_png failed")

\* Two Text commands have been rendered: Ok, and the saved image is white.
C7_Witness ==
    /\ pc = "returned"
    /\ result = Ok
    /\ Len(commands) = 2
    /\ \A j \in DOMAIN commands : commands[j].type = "Text"
    /\ persisted = WhiteCanvas(CanvasW, CanvasH)
    /\ Len(printed) = 2

----------------------------------------------------------------------------
\* C8: the canvas starts opaque white.  Whenever render holds a pixmap, it
\* has the renderer's size and every pixel that no command processed so far
\* touches is opaque white; a render of no commands that returns Ok has
\* persisted an all-white width x height image.
C8_WhiteBackground ==
    /\ pixels # NoPixmap =>
        /\ pixels.width = renderer.width
        /\ pixels.height = renderer.height
        /\ Len(pixels.data) = renderer.width * renderer.height
        /\ \A i \in DOMAIN pixels.data :
               \/ pixels.data[i] = SkiaWhite
               \/ \E j \in 1..Processed : Touches(commands[j], pixels, i)
    /\ (pc = "returned" /\ commands = <<>> /\ result = Ok) =>
           persisted = WhiteCanvas(renderer.width, renderer.height)

\* One command has been drawn: it changed some pixel and left another, which
\* is white.
C8_Witness ==
    /\ JustDone
    /\ \E i \in DOMAIN pixels.data :
           Touches(commands[1], pixels, i) /\ pixels.data[i] # SkiaWhite
    /\ \E i \in DOMAIN pixels.data :
           ~Touches(commands[1], pixels, i) /\ pixels.data[i] = SkiaWhite

----------------------------------------------------------------------------
\* C9: finalize, then write.  In one call save_png is invoked at most once,
\* and only when every command of the list has been processed; what it
\* persists is the pixmap as it then is.  After the hand-over the pixmap is
\* not touched again: the only step left is the return, which drops it.
\* render moves from its entry to the loop to the return, never back.
C9_FinalizeThenWrite ==
    /\ [](/\ sinkCalls \in {0, 1}
          /\ sinkCalls = 1 =>
                /\ pc = "returned"
                /\ idx = Len(commands) + 1
                /\ result = Ok => persisted = pixels
          /\ persisted # NoPixmap => sinkCalls = 1)
    /\ [][/\ sinkCalls = 1 => (pc' = "idle" /\ pixels' = NoPixmap)
          /\ pc = "loop" => pc' \in {"loop", "returned"}
          /\ pc = "returned" => pc' = "idle"
          /\ (pc = "loop" /\ pc' = "loop") =>
                (idx' = idx + 1 /\ sinkCalls' = 0 /\ persisted' = NoPixmap)]_vars

\* Two commands have been composited and the drawn-on pixmap saved.
C9_Witness ==
    /\ sinkCalls = 1
    /\ Len(commands) = 2
    /\ result = Ok
    /\ persisted = pixels
    /\ persisted # WhiteCanvas(CanvasW, CanvasH)

----------------------------------------------------------------------------
\* A call has returned that was given the command list and the canvas size
\* of a recorded earlier call.
SameInputs ==
    /\ pc = "returned"
    /\ prev.valid
    /\ prev.commands = commands
    /\ prev.width = renderer.width
    /\ prev.height = renderer.height

\* C10 as claimed: such a call has the earlier call's result and pixels.
C10_SameInputsSameResult ==
    SameInputs => (result = prev.result /\ pixels = prev.pixels)

\* C10, amended: such a call ends on the earlier call's pixels, reaches
\* save_png exactly if the earlier call did, and has the earlier call's
\* result unless save_png was reached (whose own failure is the one thing
\* that may differ between the two).
C10_SameInputsSameCanvas ==
    SameInputs =>
        /\ pixels = prev.pixels
        /\ sinkCalls = prev.sinkCalls
        /\ sinkCalls = 0 => result = prev.result

\* A command has been rendered again on a canvas of the same size, after a
\* recorded call that drew on its canvas.
C10_Witness ==
    /\ SameInputs
    /\ Len(commands) = MaxCmdsTwice
    /\ pixels # NoPixmap
    /\ pixels # WhiteCanvas(CanvasW, CanvasH)

----------------------------------------------------------------------------
\* The source and the column the last get_numeric_column call was about.

Answered == answer # NoAnswer
IsTypeMismatch(a) == a.status = "err" /\ a.variant = "TypeMismatch"
OnDataFrame == Answered /\ source.kind = "DataFrame"
OnSeries == Answered /\ source.kind = "Series"
Contiguous(series) == series.n_chunks = 1 /\ series.null_count = 0

\* C11 as claimed: get_numeric_column returns TypeMismatch exactly when the
\* column's dtype is not Float64, on a DataFrame (for a column it has) and
\* on a Series alike; a Float64 Series never gets TypeMismatch, and gets its
\* values when they lie in one chunk without nulls.
C11_TypeMismatchIffNotFloat64 ==
    /\ OnDataFrame =>
          ( IsTypeMismatch(answer) <=>
              /\ DataFrameHasColumns(source, query)
              /\ DataFrameColumn(source, query).val.dtype # Float64 )
    /\ OnSeries =>
          /\ IsTypeMismatch(answer) <=> source.series.dtype # Float64
          /\ (source.series.dtype = Float64 /\ Contiguous(source.series))
                => answer = OkSlice(source.series.values)

\* C11, what the code does: on a DataFrame the claim holds, and a Float64
\* column in one chunk without nulls is returned.  On a Series the test is
\* the other way round: a Float64 Series always gets TypeMismatch, any other
\* Series gets the PolarsError of a schema mismatch, and no Series ever gets
\* its values.
C11_SeriesTestInverted ==
    /\ OnDataFrame =>
          /\ IsTypeMismatch(answer) <=>
                /\ DataFrameHasColumns(source, query)
                /\ DataFrameColumn(source, query).val.dtype # Float64
          /\ ~DataFrameHasColumns(source, query) =>
                answer = FromPolarsError("ColumnNotFound")
          /\ ( /\ DataFrameHasColumns(source, query)
               /\ DataFrameColumn(source, query).val.dtype = Float64
               /\ Contiguous(DataFrameColumn(source, query).val) ) =>
                answer = OkSlice(DataFrameColumn(source, query).val.values)
    /\ OnSeries =>
          /\ source.series.dtype = Float64 => answer = TypeMismatch(query)
          /\ source.series.dtype # Float64 =>
                answer = FromPolarsError("SchemaMismatch")
          /\ answer.status # "ok"

\* A Float64 Series of two values, in one chunk and without nulls, was asked
\* for its own column: the answer is TypeMismatch.
C11_Witness ==
    /\ OnSeries
    /\ source.series = Series("x", Float64, <<1, 2>>, 1, 0)
    /\ query = "x"
    /\ answer = TypeMismatch("x")

====
